---------------------------- MODULE Spec2Model ----------------------------
(***************************************************************************)
(* A model of the calculator of src/unnamed/part_000 (the version with     *)
(* parentheses and unary minus): Calculate = tokenize, evaluateStartEnd,   *)
(* evaluateMulDiv, evaluatePlusMinus over a doubly linked list of tokens.  *)
(*                                                                         *)
(* A line is a sequence of one-character strings.  The token list lives in *)
(* `heap`, a sequence of token records addressed by their index; nil is 0. *)
(* Splicing never frees a token, it only re-links, so the replaced tokens  *)
(* stay in the heap with their old links, as they do in the Go program     *)
(* until the collector takes them.                                         *)
(*                                                                         *)
(* float64 values are modelled as exact signed fractions [s, n, d] with    *)
(* the IEEE-754 special values: n = 0, d = 1 is a zero (of either sign),   *)
(* n = 1, d = 0 an infinity (of either sign), n = 0, d = 0 not-a-number.   *)
(* Rounding is not modelled: a value the model computes is the value the   *)
(* program computes up to float64 rounding error.                          *)
(***************************************************************************)
EXTENDS Integers, Sequences, FiniteSets, TLC

VARIABLES
    line,     \* Calculate's argument
    pc,       \* where Calculate is
    heap,     \* the tokens allocated so far
    index,    \* tokenize: index (1-based)
    flag,     \* tokenize: flag, a unary minus is pending
    prev,     \* tokenize: prev, the last token of the list; TAIL in the end
    p,        \* evaluateStartEnd: p
    new,      \* calcStartEnd: new
    dummy,    \* calcStartEnd: dummy
    answer,   \* Calculate's result
    err,      \* what Calculate panicked with
    origin    \* history: origin[a] is the index in line of the first character
              \* of the token tokenize allocated at a (0 for HEAD)

vars == <<line, pc, heap, index, flag, prev, p, new, dummy, answer, err, origin>>

-----------------------------------------------------------------------------
(* Bounds of the model. *)

\* Every line over Alphabet of at most MaxLen characters is an input.
MaxLen == 3

\* Flat chains n1 op n2 ... have at most MaxOperands operands.
MaxOperands == 3

\* Nested expressions have at most MaxSize operands and pairs of parentheses.
MaxSize == 5

-----------------------------------------------------------------------------
(* float64 arithmetic *)

nil == 0

RECURSIVE Gcd(_, _)
Gcd(a, b) == IF b = 0 THEN a ELSE Gcd(b, a % b)

NaN == [s |-> 1, n |-> 0, d |-> 0]

Norm(s, n, d) ==
    IF n = 0 /\ d = 0 THEN NaN
    ELSE LET g == Gcd(n, d) IN [s |-> s, n |-> n \div g, d |-> d \div g]

Float(i) == IF i < 0 THEN [s |-> -1, n |-> -i, d |-> 1] ELSE [s |-> 1, n |-> i, d |-> 1]

IsNaN(x) == x.n = 0 /\ x.d = 0
IsInf(x) == x.n = 1 /\ x.d = 0
IsZero(x) == x.n = 0 /\ x.d = 1

\* x * y
FMul(x, y) == Norm(x.s * y.s, x.n * y.n, x.d * y.d)

\* x / y: the product of x and the reciprocal of y; a zero's reciprocal is the
\* infinity of its sign, so x / 0 is an infinity and 0 / 0 is not-a-number.
FDiv(x, y) == Norm(x.s * y.s, x.n * y.d, x.d * y.n)

\* x + y
FAdd(x, y) ==
    IF IsNaN(x) \/ IsNaN(y) THEN NaN
    ELSE IF IsInf(x) /\ IsInf(y) THEN (IF x.s = y.s THEN x ELSE NaN)
    ELSE IF IsInf(x) THEN x
    ELSE IF IsInf(y) THEN y
    ELSE LET sum == x.s * x.n * y.d + y.s * y.n * x.d
         IN  IF sum = 0
             THEN [s |-> IF x.s = -1 /\ y.s = -1 THEN -1 ELSE 1, n |-> 0, d |-> 1]
             ELSE Norm(IF sum < 0 THEN -1 ELSE 1, IF sum < 0 THEN -sum ELSE sum,
                       x.d * y.d)

\* -x
FNeg(x) == IF IsNaN(x) THEN x ELSE [x EXCEPT !.s = -x.s]

\* x - y
FSub(x, y) == FAdd(x, FNeg(y))

\* Equality of float64 values (==): the two zeros are equal, NaN equals nothing.
FEq(x, y) ==
    /\ ~IsNaN(x)
    /\ ~IsNaN(y)
    /\ \/ x = y
       \/ IsZero(x) /\ IsZero(y)

-----------------------------------------------------------------------------
(* Tokens *)

Number == "Number"
Plus == "Plus"
Minus == "Minus"
Multiple == "Multiple"
Divide == "Divide"
Start == "Start"
End == "End"

Token(kind, number, prv, nxt) ==
    [kind |-> kind, number |-> number, prev |-> prv, next |-> nxt]

Digits == {"0", "1", "2", "3", "4", "5", "6", "7", "8", "9"}

IsDigit(c) == c \in Digits

DigitVal(c) ==
    CASE c = "0" -> 0 [] c = "1" -> 1 [] c = "2" -> 2 [] c = "3" -> 3
      [] c = "4" -> 4 [] c = "5" -> 5 [] c = "6" -> 6 [] c = "7" -> 7
      [] c = "8" -> 8 [] c = "9" -> 9

\* readNumber's loop from `i` on, 1-based: number, flag and keta are its locals.
RECURSIVE DigitLoop(_, _, _, _, _)
DigitLoop(ln, i, number, seenDot, keta) ==
    IF i > Len(ln) THEN [number |-> FMul(number, keta), index |-> i]
    ELSE IF ln[i] = "." THEN DigitLoop(ln, i + 1, number, TRUE, keta)
    ELSE IF IsDigit(ln[i])
         THEN DigitLoop(ln, i + 1,
                        FAdd(FMul(number, Float(10)), Float(DigitVal(ln[i]))),
                        seenDot,
                        IF seenDot THEN FMul(keta, [s |-> 1, n |-> 1, d |-> 10])
                        ELSE keta)
    ELSE [number |-> FMul(number, keta), index |-> i]

\* A readNumber that skips a character that is no digit, ".", operator or
\* parenthesis instead of ending the literal at it.
RECURSIVE DigitLoopSkipping(_, _, _, _, _)
DigitLoopSkipping(ln, i, number, seenDot, keta) ==
    IF i > Len(ln) THEN [number |-> FMul(number, keta), index |-> i]
    ELSE IF ln[i] = "." THEN DigitLoopSkipping(ln, i + 1, number, TRUE, keta)
    ELSE IF IsDigit(ln[i])
         THEN DigitLoopSkipping(ln, i + 1,
                        FAdd(FMul(number, Float(10)), Float(DigitVal(ln[i]))),
                        seenDot,
                        IF seenDot THEN FMul(keta, [s |-> 1, n |-> 1, d |-> 10])
                        ELSE keta)
    ELSE IF ln[i] \notin {"+", "-", "*", "/", "(", ")"}
         THEN DigitLoopSkipping(ln, i + 1, number, seenDot, keta)
    ELSE [number |-> FMul(number, keta), index |-> i]

readNumberSkipping(ln, i) == DigitLoopSkipping(ln, i, Float(0), FALSE, Float(1))

readNumber(ln, i) == DigitLoop(ln, i, Float(0), FALSE, Float(1))

\* connectToken on a token allocated at the end of the heap.
connectToken(h, prv, tok) ==
    LET a == Len(h) + 1
    IN  Append([h EXCEPT ![prv].next = a], [tok EXCEPT !.prev = prv])


-----------------------------------------------------------------------------
(* evaluateMulDiv *)

\* What a traversal ends with: it returns, or it panics on a nil pointer or an
\* invalid token, or it never ends (more iterations than a list without a
\* cycle allows).
OK == "ok"
NilDeref == "nil pointer dereference"
InvalidSyntax == "invalid syntax for token"
InvalidCharacter == "invalid character"
Diverge == "no termination"

Fuel(h) == 2 * Len(h) + 2

calcMultiple(h, q) == Token(Number, FMul(h[h[q].prev].number, h[h[q].next].number), nil, nil)

\* A calcDivide with its operands swapped: next / prev.
calcDivideSwapped(h, q) == Token(Number, FDiv(h[h[q].next].number, h[h[q].prev].number), nil, nil)

calcDivide(h, q) == Token(Number, FDiv(h[h[q].prev].number, h[h[q].next].number), nil, nil)

\* replaceMulDiv(p, new) with new the token just allocated at the end of h.
replaceMulDiv(h, q, nw) ==
    LET pp == h[h[q].prev].prev
        nn == h[h[q].next].next
        h1 == IF pp # nil
              THEN [h EXCEPT ![pp].next = nw, ![nw].prev = pp]
              ELSE h
        h2 == IF nn # nil
              THEN [h1 EXCEPT ![nn].prev = nw, ![nw].next = nn]
              ELSE h1
    IN  [heap |-> h2, p |-> h2[nw].next]

RECURSIVE MulDivLoop(_, _, _)
MulDivLoop(h, q, fuel) ==
    IF fuel = 0 THEN [heap |-> h, out |-> Diverge]
    ELSE IF h[q].kind \in {Multiple, Divide}
         THEN IF h[q].prev = nil \/ h[q].next = nil
              THEN [heap |-> h, out |-> NilDeref]
              ELSE LET tok == IF h[q].kind = Multiple THEN calcMultiple(h, q)
                              ELSE calcDivide(h, q)
                       r == replaceMulDiv(Append(h, tok), q, Len(h) + 1)
                   IN  IF r.p = nil THEN [heap |-> r.heap, out |-> OK]
                       ELSE MulDivLoop(r.heap, r.p, fuel - 1)
         ELSE IF h[q].next = nil THEN [heap |-> h, out |-> OK]
              ELSE MulDivLoop(h, h[q].next, fuel - 1)

evaluateMulDiv(h, head) == MulDivLoop(h, head, Fuel(h))

-----------------------------------------------------------------------------
(* evaluatePlusMinus *)

RECURSIVE PlusMinusLoop(_, _, _, _)
PlusMinusLoop(h, q, ans, fuel) ==
    IF fuel = 0 THEN [answer |-> ans, out |-> Diverge]
    ELSE IF h[q].kind = Number /\ h[q].prev = nil
         THEN [answer |-> ans, out |-> NilDeref]
    ELSE IF h[q].kind = Number /\ h[h[q].prev].kind \notin {Plus, Minus}
         THEN [answer |-> ans, out |-> InvalidSyntax]
    ELSE LET a == IF h[q].kind # Number THEN ans
                  ELSE IF h[h[q].prev].kind = Plus THEN FAdd(ans, h[q].number)
                  ELSE FSub(ans, h[q].number)
         IN  IF h[q].next = nil THEN [answer |-> a, out |-> OK]
             ELSE PlusMinusLoop(h, h[q].next, a, fuel - 1)

evaluatePlusMinus(h, q) == PlusMinusLoop(h, q, Float(0), Fuel(h))

-----------------------------------------------------------------------------
(* evaluateStartEnd *)

\* for p.next.kind != End { p = p.next }
RECURSIVE FindEnd(_, _, _)
FindEnd(h, q, fuel) ==
    IF fuel = 0 THEN [p |-> q, out |-> Diverge]
    ELSE IF h[q].next = nil THEN [p |-> q, out |-> NilDeref]
    ELSE IF h[h[q].next].kind = End THEN [p |-> q, out |-> OK]
    ELSE FindEnd(h, h[q].next, fuel - 1)

\* A replaceStartEnd that links new to tmpEnd.next, the End token, instead of
\* tmpEnd.next.next: the End token stays in the list.
replaceStartEndKeepEnd(h, tmpHead, nw, tmpEnd) ==
    IF h[tmpHead].prev = nil \/ h[h[tmpHead].prev].prev = nil
    THEN [heap |-> h, out |-> "nil pointer dereference"]
    ELSE LET pp == h[h[tmpHead].prev].prev
             h1 == [h EXCEPT ![pp].next = nw, ![nw].prev = pp]
             nn == h1[tmpEnd].next
         IN  [heap |-> [h1 EXCEPT ![nn].prev = nw, ![nw].next = nn], out |-> "ok"]

\* replaceStartEnd(tmpHead, new, tmpEnd); tmpHead and tmpEnd.next are not nil.
replaceStartEnd(h, tmpHead, nw, tmpEnd) ==
    IF h[tmpHead].prev = nil \/ h[h[tmpHead].prev].prev = nil
    THEN [heap |-> h, out |-> NilDeref]
    ELSE LET pp == h[h[tmpHead].prev].prev
             h1 == [h EXCEPT ![pp].next = nw, ![nw].prev = pp]
             nn == h1[h1[tmpEnd].next].next
             h2 == IF nn # nil
                   THEN [h1 EXCEPT ![nn].prev = nw, ![nw].next = nn]
                   ELSE h1
         IN  [heap |-> h2, out |-> OK]

\* calcStartEnd up to its call of evaluateMulDiv: new and dummy are allocated
\* at the end of the heap, the interior of the group is cut off.
calcStartEnd(h, tmpHead, tmpEnd) ==
    LET nw == Len(h) + 1
        dm == Len(h) + 2
        r  == replaceStartEnd(Append(h, Token(Number, Float(0), nil, nil)),
                              tmpHead, nw, tmpEnd)
        h1 == Append(r.heap, Token(Plus, Float(0), nil, tmpHead))
        h2 == [h1 EXCEPT ![tmpHead].prev = dm]
        h3 == [h2 EXCEPT ![tmpEnd].next = nil]
    IN  IF r.out # OK THEN [heap |-> r.heap, new |-> nw, dummy |-> nil, out |-> r.out]
        ELSE [heap |-> h3, new |-> nw, dummy |-> dm, out |-> OK]


-----------------------------------------------------------------------------
(* Input lines *)

Alphabet == {"0", "2", "3", ".", "+", "-", "*", "/", "(", ")", "x"}

Operators == {"+", "-", "*", "/"}

\* Every line of 1..MaxLen characters of Alphabet (main never passes "").
AnyLines == UNION {[1..k -> Alphabet] : k \in 1..MaxLen}

Literals == {<<"0">>, <<"2">>, <<"1", ".", "5">>}

\* n1 op n2 ... nk with exactly k operands drawn from `operands`.
RECURSIVE Chains(_, _)
Chains(operands, k) ==
    IF k = 1 THEN operands
    ELSE {c \o <<op>> \o a : c \in Chains(operands, k - 1), op \in Operators,
                             a \in operands}

FlatLines == UNION {Chains(Literals, k) : k \in 1..MaxOperands}

\* One or two operands, each a literal or a literal with a unary minus.
SignedLiterals == Literals \cup {<<"-">> \o l : l \in Literals}

SignedLines == Chains(SignedLiterals, 1) \cup Chains(SignedLiterals, 2)

\* A group of one or two signed operands, alone or as the right operand of a
\* literal, with and without a unary minus before the group.
GroupedLines ==
    LET groups == {<<"(">> \o c \o <<")">> : c \in SignedLines}
        signed == groups \cup {<<"-">> \o g : g \in groups}
    IN  signed \cup {l \o <<op>> \o g : l \in Literals, op \in Operators, g \in signed}

\* The shapes of the expressions of `s` symbols, a symbol being an operand
\* "n" or a pair of parentheses: operands, operators and groups nested at will.
ShapesOfSize[s \in 1..MaxSize] ==
    LET Operand(t) ==
            IF t = 1 THEN {<<"n">>}
            ELSE {<<"(">> \o e \o <<")">> : e \in ShapesOfSize[t - 1]}
    IN  Operand(s) \cup
        UNION {{l \o <<op>> \o r : l \in ShapesOfSize[k], op \in Operators,
                                   r \in Operand(s - k)} : k \in 1..(s - 1)}

DigitChar(d) ==
    CASE d = 0 -> "0" [] d = 1 -> "1" [] d = 2 -> "2" [] d = 3 -> "3"
      [] d = 4 -> "4" [] d = 5 -> "5" [] d = 6 -> "6" [] d = 7 -> "7"
      [] d = 8 -> "8" [] d = 9 -> "9"

\* The shape with its k-th operand written as the digit k + 1, or, with
\* `zero`, its last operand written as 0.
RECURSIVE Fill(_, _, _)
Fill(shape, k, zero) ==
    IF shape = <<>> THEN <<>>
    ELSE IF Head(shape) # "n" THEN <<Head(shape)>> \o Fill(Tail(shape), k, zero)
    ELSE IF zero /\ "n" \notin {Tail(shape)[j] : j \in 1..(Len(shape) - 1)}
         THEN <<"0">> \o Fill(Tail(shape), k + 1, zero)
    ELSE <<DigitChar((k + 1) % 10)>> \o Fill(Tail(shape), k + 1, zero)

NestedLines ==
    UNION {{Fill(e, 1, z) : e \in ShapesOfSize[s], z \in BOOLEAN} : s \in 1..MaxSize}

\* Digits and decimal points only.
DotLines == UNION {[1..k -> {"1", "2", "3", "."}] : k \in 1..5}

\* Lines of the table of TestCalculate.
TestLines ==
    { <<"1", "+", "2", "*", "3", "+", "4", "/", "2", "-", "5">>,
      <<"1", "+", "-", "2", ".", "2">>,
      <<"2", ".", "2", "/", "1", ".", "1">>,
      <<"(", "2", ".", "1", "*", "3", ".", "0", ")">>,
      <<"(", "(", "2", "+", "3", ")", "+", "4", ".", "1", ")">>,
      <<"(", "(", "2", "+", "3", ")", "*", "4", ")">>,
      <<"(", "1", "+", "2", ")", "+", "(", "3", "+", "4", ")">>,
      <<"(", "1", "+", "2", ")", "*", "(", "3", "+", "4", ")">> }

\* The lines Calculate is called with.
Lines == AnyLines \cup FlatLines \cup SignedLines \cup GroupedLines
             \cup NestedLines \cup DotLines \cup TestLines

-----------------------------------------------------------------------------
(* Calculate *)

HEAD == 1

Init ==
    /\ line \in Lines
    /\ pc = "tokenize"
    /\ heap = <<Token(Plus, Float(0), nil, nil)>>
    /\ index = 1
    /\ flag = FALSE
    /\ prev = HEAD
    /\ p = nil
    /\ new = nil
    /\ dummy = nil
    /\ answer = Float(0)
    /\ err = OK
    /\ origin = <<0>>

\* The kind of the token the character c alone stands for.
KindOf(c) ==
    CASE c = "+" -> Plus [] c = "-" -> Minus [] c = "*" -> Multiple
      [] c = "/" -> Divide [] c = "(" -> Start [] c = ")" -> End

\* The loop of tokenize ends when index reaches the end of the line; Calculate
\* then calls evaluateStartEnd(TAIL), whose p starts at TAIL.
AfterToken(i, tail) ==
    IF i > Len(line)
    THEN pc' = "startend" /\ p' = tail
    ELSE pc' = "tokenize" /\ p' = p

\* A tokenize that forgets the pending unary minus.
SignedNumberForgotten(number, flg) == number

\* if flag { tok.number *= -1 }
SignedNumber(number, flg) == IF flg THEN FMul(number, Float(-1)) ELSE number

\* A "-" is a unary minus: prev.kind != Number
IsUnaryMinus(h, prv) == h[prv].kind # Number

\* One iteration of the loop of tokenize.
Tokenize ==
    /\ pc = "tokenize"
    /\ LET c == line[index] IN
       IF IsDigit(c)
       THEN LET r == readNumber(line, index)
                v == SignedNumber(r.number, flag)
            IN  /\ heap' = connectToken(heap, prev, Token(Number, v, nil, nil))
                /\ origin' = Append(origin, index)
                /\ prev' = Len(heap) + 1
                /\ index' = r.index
                /\ flag' = FALSE
                /\ AfterToken(r.index, Len(heap) + 1)
                /\ UNCHANGED err
       ELSE IF c = "-" /\ IsUnaryMinus(heap, prev)
       THEN /\ flag' = TRUE
            /\ index' = index + 1
            /\ AfterToken(index + 1, prev)
            /\ UNCHANGED <<heap, prev, err, origin>>
       ELSE IF c \in {"+", "-", "*", "/", "(", ")"}
       THEN /\ heap' = connectToken(heap, prev, Token(KindOf(c), Float(0), nil, nil))
            /\ origin' = Append(origin, index)
            /\ prev' = Len(heap) + 1
            /\ index' = index + 1
            /\ AfterToken(index + 1, Len(heap) + 1)
            /\ UNCHANGED <<flag, err>>
       ELSE /\ pc' = "panic"
            /\ err' = InvalidCharacter
            /\ UNCHANGED <<heap, prev, index, flag, p, origin>>
    /\ UNCHANGED <<line, new, dummy, answer>>

\* One iteration of the loop of evaluateStartEnd.  At a Start token it runs up
\* to calcStartEnd's call of evaluateMulDiv(dummy).
EvaluateStartEnd ==
    /\ pc = "startend"
    /\ IF heap[p].kind = Start
       THEN LET f == FindEnd(heap, p, Fuel(heap))
                c == calcStartEnd(heap, heap[p].next, f.p)
            IN  IF f.out # OK
                THEN /\ pc' = "panic"
                     /\ err' = f.out
                     /\ UNCHANGED <<heap, p, new, dummy>>
                ELSE IF c.out # OK
                THEN /\ pc' = "panic"
                     /\ err' = c.out
                     /\ heap' = c.heap
                     /\ UNCHANGED <<p, new, dummy>>
                ELSE /\ pc' = "group_muldiv"
                     /\ heap' = c.heap
                     /\ p' = f.p
                     /\ new' = c.new
                     /\ dummy' = c.dummy
                     /\ UNCHANGED err
       ELSE /\ p' = heap[p].prev
            /\ pc' = IF heap[p].prev = nil THEN "muldiv" ELSE "startend"
            /\ UNCHANGED <<heap, new, dummy, err>>
    /\ UNCHANGED <<line, index, flag, prev, answer, origin>>

\* calcStartEnd: evaluateMulDiv(dummy)
GroupMulDiv ==
    /\ pc = "group_muldiv"
    /\ LET r == evaluateMulDiv(heap, dummy)
       IN  /\ heap' = r.heap
           /\ pc' = IF r.out = OK THEN "group_plusminus" ELSE "panic"
           /\ err' = r.out
    /\ UNCHANGED <<line, index, flag, prev, p, new, dummy, answer, origin>>

\* calcStartEnd: new.number = evaluatePlusMinus(dummy); return new.prev, and
\* the end of the iteration of evaluateStartEnd.
GroupPlusMinus ==
    /\ pc = "group_plusminus"
    /\ LET r == evaluatePlusMinus(heap, dummy)
       IN  IF r.out # OK
           THEN /\ pc' = "panic"
                /\ err' = r.out
                /\ UNCHANGED <<heap, p>>
           ELSE /\ heap' = [heap EXCEPT ![new].number = r.answer]
                /\ p' = heap[new].prev
                /\ pc' = IF heap[new].prev = nil THEN "muldiv" ELSE "startend"
                /\ UNCHANGED err
    /\ UNCHANGED <<line, index, flag, prev, new, dummy, answer, origin>>

\* Calculate: evaluateMulDiv(HEAD)
EvaluateMulDiv ==
    /\ pc = "muldiv"
    /\ LET r == evaluateMulDiv(heap, HEAD)
       IN  /\ heap' = r.heap
           /\ pc' = IF r.out = OK THEN "plusminus" ELSE "panic"
           /\ err' = r.out
    /\ UNCHANGED <<line, index, flag, prev, p, new, dummy, answer, origin>>

\* Calculate: return evaluatePlusMinus(HEAD)
EvaluatePlusMinus ==
    /\ pc = "plusminus"
    /\ LET r == evaluatePlusMinus(heap, HEAD)
       IN  IF r.out # OK
           THEN /\ pc' = "panic"
                /\ err' = r.out
                /\ UNCHANGED answer
           ELSE /\ pc' = "done"
                /\ answer' = r.answer
                /\ UNCHANGED err
    /\ UNCHANGED <<line, heap, index, flag, prev, p, new, dummy, origin>>

Next ==
    \/ Tokenize
    \/ EvaluateStartEnd
    \/ GroupMulDiv
    \/ GroupPlusMinus
    \/ EvaluateMulDiv
    \/ EvaluatePlusMinus

Spec == Init /\ [][Next]_vars


-----------------------------------------------------------------------------
(* The value of a line under the standard rules of arithmetic, by recursive *)
(* descent:                                                                 *)
(*     expr    ::= term { ("+" | "-") term }                                *)
(*     term    ::= factor { ("*" | "/") factor }                            *)
(*     factor  ::= ["-"] literal | ["-"] "(" expr ")"                       *)
(*     literal ::= digit+ [ "." digit+ ]                                    *)
(* A result says whether the text parsed (ok), its value (val), where the   *)
(* parse stopped (pos), and what the text used: a zero divisor (divz), a    *)
(* unary minus (unary), a unary minus before a group (neggroup), a group    *)
(* (group).                                                                 *)

RECURSIVE Pow10(_)
Pow10(k) == IF k = 0 THEN 1 ELSE 10 * Pow10(k - 1)

RECURSIVE DigitsEnd(_, _)
DigitsEnd(ln, i) ==
    IF i <= Len(ln) /\ IsDigit(ln[i]) THEN DigitsEnd(ln, i + 1) ELSE i

\* The number the digits ln[i], ..., ln[j-1] write.
RECURSIVE DigitsValue(_, _, _)
DigitsValue(ln, i, j) ==
    IF j <= i THEN 0 ELSE 10 * DigitsValue(ln, i, j - 1) + DigitVal(ln[j - 1])

Failed == [ok |-> FALSE, val |-> NaN, pos |-> 0, divz |-> FALSE, unary |-> FALSE,
           neggroup |-> FALSE, group |-> FALSE]

Parsed(v, i) == [ok |-> TRUE, val |-> v, pos |-> i, divz |-> FALSE, unary |-> FALSE,
                 neggroup |-> FALSE, group |-> FALSE]

\* The result of combining the parsed operands a and b into the value v.
Combined(a, b, v, dz) ==
    [ok |-> TRUE, val |-> v, pos |-> b.pos, divz |-> a.divz \/ b.divz \/ dz,
     unary |-> a.unary \/ b.unary, neggroup |-> a.neggroup \/ b.neggroup,
     group |-> a.group \/ b.group]

RefLiteral(ln, i) ==
    LET e1 == DigitsEnd(ln, i)
        e2 == DigitsEnd(ln, e1 + 1)
    IN  IF e1 = i THEN Failed
        ELSE IF e1 <= Len(ln) /\ ln[e1] = "." /\ e2 > e1 + 1
        THEN Parsed(Norm(1, DigitsValue(ln, i, e1) * Pow10(e2 - e1 - 1)
                             + DigitsValue(ln, e1 + 1, e2),
                         Pow10(e2 - e1 - 1)), e2)
        ELSE Parsed(Float(DigitsValue(ln, i, e1)), e1)

RECURSIVE RefExpr(_, _)
RECURSIVE RefExprRest(_, _)
RECURSIVE RefTerm(_, _)
RECURSIVE RefTermRest(_, _)
RECURSIVE RefFactor(_, _)

RefFactor(ln, i) ==
    IF i > Len(ln) THEN Failed
    ELSE IF ln[i] = "-"
    THEN IF i + 1 <= Len(ln) /\ ln[i + 1] = "("
         THEN LET g == RefFactor(ln, i + 1)
              IN  IF g.ok THEN [g EXCEPT !.val = FNeg(g.val), !.unary = TRUE,
                                         !.neggroup = TRUE]
                  ELSE Failed
         ELSE LET l == RefLiteral(ln, i + 1)
              IN  IF l.ok THEN [l EXCEPT !.val = FNeg(l.val), !.unary = TRUE]
                  ELSE Failed
    ELSE IF ln[i] = "("
    THEN LET e == RefExpr(ln, i + 1)
         IN  IF e.ok /\ e.pos <= Len(ln) /\ ln[e.pos] = ")"
             THEN [e EXCEPT !.pos = e.pos + 1, !.group = TRUE]
             ELSE Failed
    ELSE RefLiteral(ln, i)

\* acc is the term parsed so far, a left operand of what follows.
RefTermRest(ln, acc) ==
    IF acc.pos <= Len(ln) /\ ln[acc.pos] \in {"*", "/"}
    THEN LET f == RefFactor(ln, acc.pos + 1)
         IN  IF ~f.ok THEN Failed
             ELSE IF ln[acc.pos] = "*"
             THEN RefTermRest(ln, Combined(acc, f, FMul(acc.val, f.val), FALSE))
             ELSE RefTermRest(ln, Combined(acc, f, FDiv(acc.val, f.val),
                                           IsZero(f.val)))
    ELSE acc

RefTerm(ln, i) ==
    LET f == RefFactor(ln, i) IN IF f.ok THEN RefTermRest(ln, f) ELSE Failed

RefExprRest(ln, acc) ==
    IF acc.pos <= Len(ln) /\ ln[acc.pos] \in {"+", "-"}
    THEN LET t == RefTerm(ln, acc.pos + 1)
         IN  IF ~t.ok THEN Failed
             ELSE IF ln[acc.pos] = "+"
             THEN RefExprRest(ln, Combined(acc, t, FAdd(acc.val, t.val), FALSE))
             ELSE RefExprRest(ln, Combined(acc, t, FSub(acc.val, t.val), FALSE))
    ELSE acc

RefExpr(ln, i) ==
    LET t == RefTerm(ln, i) IN IF t.ok THEN RefExprRest(ln, t) ELSE Failed

\* The whole line is one expression.
Ref(ln) ==
    LET e == RefExpr(ln, 1) IN IF e.ok /\ e.pos = Len(ln) + 1 THEN e ELSE Failed

\* Numbers, binary operators, unary minus before a number, balanced parentheses.
WellFormed(ln) == Ref(ln).ok /\ ~Ref(ln).neggroup

\* Two float64 results are the same: equal, or both not-a-number.
SameValue(x, y) == FEq(x, y) \/ (IsNaN(x) /\ IsNaN(y))


-----------------------------------------------------------------------------
(* What the properties below are stated with *)

ValidChars == Digits \cup {".", "+", "-", "*", "/", "(", ")"}

HasInvalidChar(ln) == \E i \in 1..Len(ln) : ln[i] \notin ValidChars

\* The number of groups open after the first i characters of ln.
RECURSIVE Depth(_, _)
Depth(ln, i) ==
    IF i = 0 THEN 0
    ELSE Depth(ln, i - 1) + (IF ln[i] = "(" THEN 1 ELSE IF ln[i] = ")" THEN -1 ELSE 0)

Balanced(ln) ==
    /\ \A i \in 1..Len(ln) : Depth(ln, i) >= 0
    /\ Depth(ln, Len(ln)) = 0

\* The index of the ")" that closes the "(" at index i of a balanced line.
MatchOf(ln, i) ==
    CHOOSE j \in (i + 1)..Len(ln) :
        /\ Depth(ln, j) = Depth(ln, i - 1)
        /\ \A k \in i..(j - 1) : Depth(ln, k) > Depth(ln, i - 1)

\* The addresses of the list from q on, following next.
RECURSIVE ListFrom(_, _, _)
ListFrom(h, q, fuel) ==
    IF q = nil \/ fuel = 0 THEN <<>>
    ELSE <<q>> \o ListFrom(h, h[q].next, fuel - 1)

List(q) == ListFrom(heap, q, Len(heap))

\* (Plus|Minus) Number (Plus|Minus) Number ... from the sentinel q on.
Alternates(q) ==
    LET l == List(q)
    IN  /\ Len(l) % 2 = 0
        /\ \A i \in 1..Len(l) :
               IF i % 2 = 1 THEN heap[l[i]].kind \in {Plus, Minus}
               ELSE heap[l[i]].kind = Number

\* The line is a op -b for literals a and b and a binary operator op.
IsBinaryNeg(ln) ==
    LET a == RefLiteral(ln, 1)
    IN  /\ a.ok
        /\ a.pos + 2 <= Len(ln)
        /\ ln[a.pos] \in Operators
        /\ ln[a.pos + 1] = "-"
        /\ RefLiteral(ln, a.pos + 2).ok
        /\ RefLiteral(ln, a.pos + 2).pos = Len(ln) + 1

BinaryNegValue(ln) ==
    LET a == RefLiteral(ln, 1)
        b == FNeg(RefLiteral(ln, a.pos + 2).val)
    IN  CASE ln[a.pos] = "+" -> FAdd(a.val, b)
          [] ln[a.pos] = "-" -> FSub(a.val, b)
          [] ln[a.pos] = "*" -> FMul(a.val, b)
          [] ln[a.pos] = "/" -> FDiv(a.val, b)

Returned == pc = "done"
Aborted == pc = "panic"

-----------------------------------------------------------------------------
(* C1 *)

\* n1 op1 n2 ... nk: no group, no unary minus, no zero divisor.
IsFlat(ln) ==
    LET r == Ref(ln) IN r.ok /\ ~r.group /\ ~r.unary /\ ~r.divz

\* C1: on a line n1 op1 n2 ... nk without parentheses, unary minus or zero
\* divisor, Calculate does not panic and returns the value of the line under
\* the standard rules: "*" and "/" before "+" and "-", equal precedence from
\* left to right.
C1_FlatValue ==
    (pc \in {"done", "panic"} /\ IsFlat(line)) =>
        Returned /\ FEq(answer, Ref(line).val)

\* A returned chain of three operands in which precedence decides the value:
\* a "-" followed by a "/".
C1_Witness ==
    /\ Returned
    /\ IsFlat(line)
    /\ \E i, j \in 1..Len(line) : i < j /\ line[i] = "-" /\ line[j] = "/"
    /\ ~IsZero(answer)

-----------------------------------------------------------------------------
(* C2 *)

\* C2: on a well-formed line with groups whose value is defined (no zero
\* divisor), Calculate returns the value of the line with every group
\* evaluated as a unit, whatever operator stands before or after a group.
C2_GroupValue ==
    (pc \in {"done", "panic"} /\ WellFormed(line) /\ Ref(line).group
        /\ ~Ref(line).divz) =>
        Returned /\ FEq(answer, Ref(line).val)

-----------------------------------------------------------------------------
(* C3 *)

-----------------------------------------------------------------------------
(* C4 *)

\* tokenize at a "-": a Minus token exactly when the last token is a Number,
\* otherwise no token and the flag set.
C4_MinusStep ==
    (pc = "tokenize" /\ line[index] = "-") =>
        IF heap[prev].kind = Number
        THEN /\ Len(heap') = Len(heap) + 1
             /\ heap'[Len(heap')].kind = Minus
             /\ prev' = Len(heap')
             /\ flag' = flag
        ELSE /\ heap' = heap
             /\ prev' = prev
             /\ flag' = TRUE
             /\ index' = index + 1

\* tokenize at a number literal: the literal's value, negated when the flag is
\* set, and the flag cleared.
C4_NumberStep ==
    (pc = "tokenize" /\ IsDigit(line[index])
        /\ RefLiteral(line, index).pos = index') =>
        /\ Len(heap') = Len(heap) + 1
        /\ heap'[Len(heap')].kind = Number
        /\ heap'[Len(heap')].number =
               (IF flag THEN FNeg(RefLiteral(line, index).val)
                ELSE RefLiteral(line, index).val)
        /\ flag' = FALSE

\* a op -b is a op (-b)
C4_Consequence ==
    (pc \in {"done", "panic"} /\ IsBinaryNeg(line)) =>
        Returned /\ SameValue(answer, BinaryNegValue(line))

\* C4: a "-" emits a Minus token exactly when the previously emitted token is
\* a Number; otherwise it emits nothing and sets the flag, and the next
\* number literal is negated and clears the flag; so a op -b evaluates to
\* a op (-b) for every operator op.
C4_UnaryMinus == [][C4_MinusStep /\ C4_NumberStep]_vars /\ []C4_Consequence

\* a - -b returned, a positive value.
C4_Witness ==
    /\ Returned
    /\ IsBinaryNeg(line)
    /\ line[RefLiteral(line, 1).pos] = "-"
    /\ answer.s = 1
    /\ ~IsZero(answer)

-----------------------------------------------------------------------------
(* C5 *)

\* C5: on a well-formed line in which some "/" has a zero divisor Calculate
\* does not abort: it returns a value.
C5_ZeroDivisorReturns ==
    (pc \in {"done", "panic"} /\ WellFormed(line) /\ Ref(line).divz) => Returned

-----------------------------------------------------------------------------
(* C6 *)

\* C6: on a line with unbalanced parentheses Calculate never returns a value.
C6_UnbalancedNeverReturns == ~Balanced(line) => ~Returned

-----------------------------------------------------------------------------
(* C7 *)

\* C7: on a well-formed line the list handed to evaluatePlusMinus, at top
\* level and for every group, is (Plus|Minus) Number (Plus|Minus) Number ...
\* from the sentinel on, and evaluatePlusMinus never panics with "invalid
\* syntax".
C7_Alternation ==
    (pc \in {"plusminus", "group_plusminus", "panic"} /\ WellFormed(line)) =>
        /\ pc = "plusminus" => Alternates(HEAD)
        /\ pc = "group_plusminus" => Alternates(dummy)
        /\ err # InvalidSyntax

-----------------------------------------------------------------------------
(* C8 *)

\* The tokens after the Start token q up to the nearest End token.
Interior(q) ==
    LET l == Tail(List(q))
        ends == {i \in 1..Len(l) : heap[l[i]].kind = End}
    IN  IF ends = {} THEN l
        ELSE SubSeq(l, 1, (CHOOSE i \in ends : \A j \in ends : i <= j) - 1)

NearestEnd(q) ==
    LET l == Tail(List(q))
        ends == {i \in 1..Len(l) : heap[l[i]].kind = End}
    IN  IF ends = {} THEN nil
        ELSE l[CHOOSE i \in ends : \A j \in ends : i <= j]

\* C8: when evaluateStartEnd examines a Start token of a line with balanced
\* parentheses, no Start token follows it in the list (every later group is
\* a Number by now), an End token follows it, and the nearest one is the
\* token of the ")" that matches its "(".
C8_NearestEndMatches ==
    (pc = "startend" /\ heap[p].kind = Start /\ Balanced(line)) =>
        /\ \A i \in 1..Len(Tail(List(p))) : heap[Tail(List(p))[i]].kind # Start
        /\ NearestEnd(p) # nil
        /\ NearestEnd(p) <= Len(origin)
        /\ origin[NearestEnd(p)] = MatchOf(line, origin[p])

\* The outermost Start of three nested groups examined, with an operator and
\* an operand after the group.
C8_Witness ==
    /\ pc = "startend"
    /\ heap[p].kind = Start
    /\ Balanced(line)
    /\ origin[p] + 2 <= Len(line)
    /\ line[origin[p] + 1] = "("
    /\ line[origin[p] + 2] = "("
    /\ MatchOf(line, origin[p]) < Len(line)
    /\ line[MatchOf(line, origin[p]) + 1] \in Operators

-----------------------------------------------------------------------------
(* C9 *)

\* C9: a number literal holds at most one decimal point: the characters
\* readNumber consumed for the last token, a Number, hold at most one ".".
C9_OneDecimalPoint ==
    (prev # HEAD /\ heap[prev].kind = Number) =>
        Cardinality({j \in origin[prev]..(index - 1) : line[j] = "."}) <= 1

-----------------------------------------------------------------------------
(* C10 *)

\* C10: a unary minus before a group negates the value of the group: a line
\* that is well-formed but for such minus signs returns the value in which
\* -(e) is the negation of (e).
C10_NegatedGroup ==
    (pc \in {"done", "panic"} /\ Ref(line).ok /\ Ref(line).neggroup
        /\ ~Ref(line).divz) =>
        Returned /\ FEq(answer, Ref(line).val)

=============================================================================
